---- MODULE Spec2Model ----
(***************************************************************************)
(* Model of the gherkin3 Go token matcher (src/go/matcher.go).             *)
(*                                                                         *)
(* Strings are sequences of one-character strings, so that slicing,        *)
(* trimming, splitting and column arithmetic are computed as the code      *)
(* computes them.  Go's zero values are kept: the empty string is <<>>,    *)
(* a nil slice is <<>>, a nil *Token is NoToken and a nil error is NoErr.  *)
(* Every character is the one-character string that spells it, except the  *)
(* backquote, which is written "BQ".  All characters are ASCII, so the     *)
(* byte lengths that len() returns are character counts.                   *)
(***************************************************************************)
EXTENDS Integers, Sequences, FiniteSets, TLC

(***************************************************************************)
(* Bounds of the model.                                                    *)
(***************************************************************************)
MaxLineNumber == 2
MaxRowLen == 4
MaxRowIndent == 1

(***************************************************************************)
(* Constants of matcher.go.                                                *)
(***************************************************************************)
DEFAULT_DIALECT == <<"e","n">>
COMMENT_PREFIX == <<"#">>
TAG_PREFIX == <<"@">>
TITLE_KEYWORD_SEPARATOR == <<":">>
TABLE_CELL_SEPARATOR == <<"|">>
DOCSTRING_SEPARATOR == <<"\"","\"","\"">>
DOCSTRING_ALTERNATIVE_SEPARATOR == <<"BQ","BQ","BQ">>

(***************************************************************************)
(* The strings package and string indexing of Go.                          *)
(***************************************************************************)
Min(a, b) == IF a <= b THEN a ELSE b

HasPrefix(s, p) == Len(p) <= Len(s) /\ SubSeq(s, 1, Len(p)) = p

\* number of leading characters of s that belong to cutset
LeadingIn(s, cutset) ==
    IF \E i \in 1..Len(s) : s[i] \notin cutset
    THEN (CHOOSE i \in 1..Len(s) :
             s[i] \notin cutset /\ \A j \in 1..(i-1) : s[j] \in cutset) - 1
    ELSE Len(s)

\* number of trailing characters of s that belong to cutset
TrailingIn(s, cutset) ==
    IF \E i \in 1..Len(s) : s[i] \notin cutset
    THEN Len(s) - (CHOOSE i \in 1..Len(s) :
             s[i] \notin cutset /\ \A j \in (i+1)..Len(s) : s[j] \in cutset)
    ELSE Len(s)

\* strings.Trim(s, cutset)
Trim(s, cutset) ==
    IF \A i \in 1..Len(s) : s[i] \in cutset
    THEN <<>>
    ELSE SubSeq(s, LeadingIn(s, cutset) + 1, Len(s) - TrailingIn(s, cutset))

\* strings.Split(s, sep) for a one-character separator: n separators give
\* n+1 fragments, and the empty string gives the one fragment "".
RECURSIVE Split(_, _)
Split(s, sep) ==
    IF \E i \in 1..Len(s) : s[i] = sep[1]
    THEN LET i == CHOOSE i \in 1..Len(s) :
                      s[i] = sep[1] /\ \A j \in 1..(i-1) : s[j] # sep[1]
         IN  <<SubSeq(s, 1, i-1)>> \o Split(SubSeq(s, i+1, Len(s)), sep)
    ELSE <<s>>

\* the slice expression s[lo:hi] (0-based, half open) panics unless
\* 0 <= lo <= hi <= len(s)
SliceInRange(s, lo, hi) == 0 <= lo /\ lo <= hi /\ hi <= Len(s)
Slice(s, lo, hi) == SubSeq(s, lo + 1, hi)

(***************************************************************************)
(* The line supplier: one record per physical line.                        *)
(***************************************************************************)
Whitespace == {" ", "\t"}

NewLine(text, number, eof) ==
    [lineText        |-> text,
     lineNumber      |-> number,
     trimmedLineText |-> Trim(text, Whitespace),
     isEOF           |-> eof]

Indent(l) == LeadingIn(l.lineText, Whitespace)
IsEof(l) == l.isEOF
IsEmpty(l) == Len(l.trimmedLineText) = 0
StartsWith(l, prefix) == HasPrefix(l.trimmedLineText, prefix)

(***************************************************************************)
(* The dialect provider: a lookup from a language code to a dialect, or    *)
(* to NoDialect (nil) when the code is unknown.                            *)
(***************************************************************************)
NoDialect == [name |-> <<>>]

DialectEn ==
    [name                    |-> <<"e","n">>,
     FeatureKeywords         |-> << <<"F","e","a","t","u","r","e">> >>,
     BackgroundKeywords      |-> << <<"B","a","c","k","g","r","o","u","n","d">> >>,
     ScenarioKeywords        |-> << <<"S","c","e","n","a","r","i","o">> >>,
     ScenarioOutlineKeywords |-> << <<"S","c","e","n","a","r","i","o"," ","O","u","t","l","i","n","e">> >>,
     ExamplesKeywords        |-> << <<"E","x","a","m","p","l","e","s">> >>,
     StepKeywords            |-> << <<"*"," ">>, <<"G","i","v","e","n"," ">>,
                                    <<"W","h","e","n"," ">> >>]

DialectFr ==
    [name                    |-> <<"f","r">>,
     FeatureKeywords         |-> << <<"F","o","n","c","t","i","o","n">> >>,
     BackgroundKeywords      |-> << <<"C","o","n","t","e","x","t","e">> >>,
     ScenarioKeywords        |-> << <<"S","c","e","n","a","r","i","o">> >>,
     ScenarioOutlineKeywords |-> << <<"P","l","a","n">> >>,
     ExamplesKeywords        |-> << <<"E","x","e","m","p","l","e","s">> >>,
     StepKeywords            |-> << <<"*"," ">>, <<"S","o","i","t"," ">>,
                                    <<"Q","u","a","n","d"," ">> >>]

GetDialect(code) ==
    IF code = <<"e","n">> THEN DialectEn
    ELSE IF code = <<"f","r">> THEN DialectFr
    ELSE NoDialect

(***************************************************************************)
(* The lines offered to the matcher.                                       *)
(***************************************************************************)
Texts ==
    {<<>>,
     <<" "," "," ">>,
     <<"#"," ","c">>,
     <<" "," ","#","c">>,
     <<"@","f","o","o"," ","@","b","a","r"," "," ","@","b","a","z">>,
     <<"@">>,
     <<" "," ","@","a"," ","@","b">>,
     <<"F","e","a","t","u","r","e",":"," ","A">>,
     <<" ","F","o","n","c","t","i","o","n",":"," ","B">>,
     <<"B","a","c","k","g","r","o","u","n","d",":">>,
     <<"C","o","n","t","e","x","t","e",":">>,
     <<"S","c","e","n","a","r","i","o",":"," ","s">>,
     <<"S","c","e","n","a","r","i","o"," ","O","u","t","l","i","n","e",":"," ","o">>,
     <<"P","l","a","n",":"," ","p">>,
     <<"E","x","a","m","p","l","e","s",":">>,
     <<"E","x","e","m","p","l","e","s",":"," ","e">>,
     <<"G","i","v","e","n"," ","x">>,
     <<" "," ","S","o","i","t"," ","y">>,
     <<"*"," ","z">>,
     <<"\"","\"","\"">>,
     <<" "," ","\"","\"","\"">>,
     <<" ","\"","\"","\"","j","s","o","n">>,
     <<"BQ","BQ","BQ">>,
     <<" "," "," ","BQ","BQ","BQ","m","d">>,
     <<"|"," ","a"," ","|"," ","b","b"," ","|">>,
     <<"|">>,
     <<" ","|"," ","a"," ","|"," ","b">>,
     <<"#"," ","l","a","n","g","u","a","g","e",":"," ","f","r">>,
     <<"#","l","a","n","g","u","a","g","e",":","e","n">>,
     <<" ","#"," ","l","a","n","g","u","a","g","e"," ",":"," ","x","x"," ">>,
     <<"#"," ","l","a","n","g","u","a","g","e",":"," ","f","r"," ","x">>,
     <<"t","e","x","t">>,
     <<" "," ","t","e","x","t">>,
     <<" "," "," "," ","t","e","x","t">>,
     <<"\t"," ","x">>}

Lines ==
    {NewLine(t, n, FALSE) : t \in Texts, n \in 1..MaxLineNumber}
        \cup {NewLine(<<>>, n, TRUE) : n \in 1..MaxLineNumber}

\* table rows: every text over RowAlphabet of at most MaxRowLen characters
\* that begins with the cell separator, behind an indent of spaces
RowAlphabet == {"|", " ", "a", "b"}

RowBodies ==
    {b \in UNION {[1..n -> RowAlphabet] : n \in 1..MaxRowLen} : b[1] = "|"}

RowLines ==
    {NewLine([i \in 1..k |-> " "] \o b, 1, FALSE) :
        k \in 0..MaxRowIndent, b \in RowBodies}

(***************************************************************************)
(* State: the fields of the matcher, the line the scanner is offering,     *)
(* and the outcome (ok, token, err) of the last rule called on it.         *)
(***************************************************************************)
VARIABLES
    lang,                       \* matcher.lang
    dialect,                    \* matcher.dialect
    activeDocStringSeparator,   \* matcher.activeDocStringSeparator
    indentToRemove,             \* matcher.indentToRemove
    line,                       \* the line being matched
    rule,                       \* the last operation
    ok, token, err,             \* its named results
    aborted,                    \* it ended in a run-time panic
    resolvedCode                \* history: code of the last pragma that resolved

matcherVars == <<lang, dialect, activeDocStringSeparator, indentToRemove>>
vars == <<lang, dialect, activeDocStringSeparator, indentToRemove,
          line, rule, ok, token, err, aborted, resolvedCode>>

NoLocation == [line |-> 0, column |-> 0]

NoToken ==
    [Type |-> "nil", Location |-> NoLocation, GherkinDialect |-> <<>>,
     Keyword |-> <<>>, Text |-> <<>>, Items |-> <<>>]

NoErr == [isNil |-> TRUE, msg |-> <<>>, loc |-> NoLocation]

parseError(msg, loc) == [isNil |-> FALSE, msg |-> msg, loc |-> loc]

\* the named results (ok bool, token *Token, err error), and whether the
\* call panicked instead of returning
Result(o, t, e) == [ok |-> o, token |-> t, err |-> e, abort |-> FALSE]
Decline == Result(FALSE, NoToken, NoErr)
Panic == [ok |-> FALSE, token |-> NoToken, err |-> NoErr, abort |-> TRUE]

Return(name, res) ==
    /\ rule' = name
    /\ ok' = res.ok
    /\ token' = res.token
    /\ err' = res.err
    /\ aborted' = res.abort

\* mutant: the token is stamped with the default code, not the active one
newTokenWithDefaultLanguage(ln, index) ==
    [Type |-> "", Location |-> [line |-> ln, column |-> index + 1],
     GherkinDialect |-> DEFAULT_DIALECT,
     Keyword |-> <<>>, Text |-> <<>>, Items |-> <<>>]

newTokenAtLocation(ln, index) ==
    [Type |-> "", Location |-> [line |-> ln, column |-> index + 1],
     GherkinDialect |-> lang,
     Keyword |-> <<>>, Text |-> <<>>, Items |-> <<>>]

NewMatcher ==
    /\ lang = DEFAULT_DIALECT
    /\ dialect = GetDialect(DEFAULT_DIALECT)
    /\ activeDocStringSeparator = <<>>
    /\ indentToRemove = 0
    /\ rule = "NewMatcher"
    /\ ok = FALSE
    /\ token = NoToken
    /\ err = NoErr
    /\ aborted = FALSE
    /\ resolvedCode = DEFAULT_DIALECT

Init == NewMatcher /\ line \in Lines

\* the scanner offers another line
Scan ==
    /\ ~aborted
    /\ line' \in Lines
    /\ Return("Scan", Decline)
    /\ UNCHANGED <<matcherVars, resolvedCode>>

eofResult(l) ==
    IF IsEof(l)
    THEN Result(TRUE,
                [newTokenAtLocation(l.lineNumber, Indent(l)) EXCEPT !.Type = "EOF"],
                NoErr)
    ELSE Decline

MatchEOF ==
    /\ ~aborted
    /\ Return("MatchEOF", eofResult(line))
    /\ UNCHANGED <<matcherVars, line, resolvedCode>>

emptyResult(l) ==
    IF IsEmpty(l)
    THEN Result(TRUE,
                [newTokenAtLocation(l.lineNumber, Indent(l)) EXCEPT !.Type = "Empty"],
                NoErr)
    ELSE Decline

MatchEmpty ==
    /\ ~aborted
    /\ Return("MatchEmpty", emptyResult(line))
    /\ UNCHANGED <<matcherVars, line, resolvedCode>>

commentResult(l) ==
    IF StartsWith(l, COMMENT_PREFIX)
    THEN Result(TRUE,
                [newTokenAtLocation(l.lineNumber, 0) EXCEPT
                    !.Type = "Comment", !.Text = l.lineText],
                NoErr)
    ELSE Decline

MatchComment ==
    /\ ~aborted
    /\ Return("MatchComment", commentResult(line))
    /\ UNCHANGED <<matcherVars, line, resolvedCode>>

RECURSIVE tagLoop(_, _, _, _)
tagLoop(splits, i, column, tags) ==
    IF i > Len(splits)
    THEN tags
    ELSE LET txt == Trim(splits[i], {" "})
         IN  tagLoop(splits, i + 1, column + Len(splits[i]) + 1,
                     IF txt # <<>>
                     THEN Append(tags, [column |-> column, text |-> TAG_PREFIX \o txt])
                     ELSE tags)

\* mutant: the column counter starts one past the indent
tagStartColumnPlusOne(l) == Indent(l) + 1

\* the first value of the column variable of MatchTagLine
tagStartColumn(l) == Indent(l)

tagLineResult(l) ==
    IF StartsWith(l, TAG_PREFIX)
    THEN LET splits == Split(l.trimmedLineText, TAG_PREFIX)
             tags == tagLoop(splits, 1, tagStartColumn(l), <<>>)
         IN  Result(TRUE,
                    [newTokenAtLocation(l.lineNumber, Indent(l)) EXCEPT
                        !.Type = "TagLine", !.Items = tags],
                    NoErr)
    ELSE Decline

MatchTagLine ==
    /\ ~aborted
    /\ Return("MatchTagLine", tagLineResult(line))
    /\ UNCHANGED <<matcherVars, line, resolvedCode>>

\* the first keyword of the list, in list order, that the line starts with
matchTitleLine(l, tokenType, keywords) ==
    IF \E i \in 1..Len(keywords) :
           StartsWith(l, keywords[i] \o TITLE_KEYWORD_SEPARATOR)
    THEN LET i == CHOOSE i \in 1..Len(keywords) :
                     /\ StartsWith(l, keywords[i] \o TITLE_KEYWORD_SEPARATOR)
                     /\ \A j \in 1..(i-1) :
                            ~StartsWith(l, keywords[j] \o TITLE_KEYWORD_SEPARATOR)
             keyword == keywords[i]
             text == l.trimmedLineText
         IN  IF SliceInRange(text, Len(keyword) + 1, Len(text))
             THEN Result(TRUE,
                         [newTokenAtLocation(l.lineNumber, Indent(l)) EXCEPT
                             !.Type = tokenType,
                             !.Keyword = keyword,
                             !.Text = Trim(Slice(text, Len(keyword) + 1, Len(text)),
                                           {" "})],
                         NoErr)
             ELSE Panic
    ELSE Decline

MatchFeatureLine ==
    /\ ~aborted
    /\ Return("MatchFeatureLine",
              matchTitleLine(line, "FeatureLine", dialect.FeatureKeywords))
    /\ UNCHANGED <<matcherVars, line, resolvedCode>>

MatchBackgroundLine ==
    /\ ~aborted
    /\ Return("MatchBackgroundLine",
              matchTitleLine(line, "BackgroundLine", dialect.BackgroundKeywords))
    /\ UNCHANGED <<matcherVars, line, resolvedCode>>

MatchScenarioLine ==
    /\ ~aborted
    /\ Return("MatchScenarioLine",
              matchTitleLine(line, "ScenarioLine", dialect.ScenarioKeywords))
    /\ UNCHANGED <<matcherVars, line, resolvedCode>>

MatchScenarioOutlineLine ==
    /\ ~aborted
    /\ Return("MatchScenarioOutlineLine",
              matchTitleLine(line, "ScenarioOutlineLine",
                             dialect.ScenarioOutlineKeywords))
    /\ UNCHANGED <<matcherVars, line, resolvedCode>>

MatchExamplesLine ==
    /\ ~aborted
    /\ Return("MatchExamplesLine",
              matchTitleLine(line, "ExamplesLine", dialect.ExamplesKeywords))
    /\ UNCHANGED <<matcherVars, line, resolvedCode>>

stepLineResult(l, keywords) ==
    IF \E i \in 1..Len(keywords) : StartsWith(l, keywords[i])
    THEN LET i == CHOOSE i \in 1..Len(keywords) :
                     /\ StartsWith(l, keywords[i])
                     /\ \A j \in 1..(i-1) : ~StartsWith(l, keywords[j])
             keyword == keywords[i]
             text == l.trimmedLineText
         IN  IF SliceInRange(text, Len(keyword), Len(text))
             THEN Result(TRUE,
                         [newTokenAtLocation(l.lineNumber, Indent(l)) EXCEPT
                             !.Type = "StepLine",
                             !.Keyword = keyword,
                             !.Text = Trim(Slice(text, Len(keyword), Len(text)),
                                           {" "})],
                         NoErr)
             ELSE Panic
    ELSE Decline

MatchStepLine ==
    /\ ~aborted
    /\ Return("MatchStepLine", stepLineResult(line, dialect.StepKeywords))
    /\ UNCHANGED <<matcherVars, line, resolvedCode>>

\* the delimiter an opening line selects, "" when it starts with neither
openingSeparator(l) ==
    IF StartsWith(l, DOCSTRING_SEPARATOR) THEN DOCSTRING_SEPARATOR
    ELSE IF StartsWith(l, DOCSTRING_ALTERNATIVE_SEPARATOR)
         THEN DOCSTRING_ALTERNATIVE_SEPARATOR
         ELSE <<>>

\* mutant: an open doc-string is closed by either delimiter literal
closesOnAnySeparator(l) == openingSeparator(l) # <<>>

\* the test that closes the open doc-string
closesDocString(l) == StartsWith(l, activeDocStringSeparator)

MatchDocStringSeparator ==
    /\ ~aborted
    /\ IF activeDocStringSeparator # <<>>
       THEN IF closesDocString(line)
            THEN \* close
                 /\ Return("MatchDocStringSeparator",
                           Result(TRUE,
                                  [newTokenAtLocation(line.lineNumber, Indent(line))
                                      EXCEPT !.Type = "DocStringSeparator"],
                                  NoErr))
                 /\ indentToRemove' = 0
                 /\ activeDocStringSeparator' = <<>>
            ELSE /\ Return("MatchDocStringSeparator", Decline)
                 /\ UNCHANGED <<activeDocStringSeparator, indentToRemove>>
       ELSE LET sep == openingSeparator(line)
                text == line.trimmedLineText
            IN  IF sep # <<>>
                THEN \* open
                     IF SliceInRange(text, Len(sep), Len(text))
                     THEN /\ activeDocStringSeparator' = sep
                          /\ indentToRemove' = Indent(line)
                          /\ Return("MatchDocStringSeparator",
                                    Result(TRUE,
                                           [newTokenAtLocation(line.lineNumber,
                                                               Indent(line))
                                               EXCEPT
                                               !.Type = "DocStringSeparator",
                                               !.Text = Slice(text, Len(sep),
                                                              Len(text))],
                                           NoErr))
                     ELSE /\ activeDocStringSeparator' = sep
                          /\ UNCHANGED indentToRemove
                          /\ Return("MatchDocStringSeparator", Panic)
                ELSE /\ Return("MatchDocStringSeparator", Decline)
                     /\ UNCHANGED <<activeDocStringSeparator, indentToRemove>>
    /\ UNCHANGED <<lang, dialect, line, resolvedCode>>

RECURSIVE cellLoop(_, _, _, _)
cellLoop(splits, i, column, cells) ==
    IF i > Len(splits)
    THEN cells
    ELSE LET txt == splits[i]
             ind == LeadingIn(txt, {" "})
         IN  cellLoop(splits, i + 1, column + Len(txt) + 1,
                      Append(cells, [column |-> column + ind + 1,
                                     text   |-> Trim(splits[i], {" "})]))

tableRowResult(l) ==
    IF StartsWith(l, TABLE_CELL_SEPARATOR)
    THEN LET ttxt == Trim(l.trimmedLineText, {" "})
         IN  IF SliceInRange(ttxt, 1, Len(ttxt) - 1)
             THEN LET splits == Split(Slice(ttxt, 1, Len(ttxt) - 1),
                                      TABLE_CELL_SEPARATOR)
                      cells == cellLoop(splits, 1, Indent(l) + 1, <<>>)
                  IN  Result(TRUE,
                             [newTokenAtLocation(l.lineNumber, Indent(l)) EXCEPT
                                 !.Type = "TableRow", !.Items = cells],
                             NoErr)
             ELSE Panic
    ELSE Decline

MatchTableRow ==
    /\ ~aborted
    /\ Return("MatchTableRow", tableRowResult(line))
    /\ UNCHANGED <<matcherVars, line, resolvedCode>>

(***************************************************************************)
(* languagePattern: ^\s*#\s*language\s*:\s*([a-zA-Z\-_]+)\s*$               *)
(* Each \s* is followed by a character that is not white space, and the    *)
(* code class holds no white space, so the match is found by one scan from *)
(* the left.                                                               *)
(***************************************************************************)
RegexpSpace == {" ", "\t"}

CodeChars ==
    {"a","b","c","d","e","f","g","h","i","j","k","l","m",
     "n","o","p","q","r","s","t","u","v","w","x","y","z",
     "A","B","C","D","E","F","G","H","I","J","K","L","M",
     "N","O","P","Q","R","S","T","U","V","W","X","Y","Z",
     "-","_"}

\* the first position at or after i that holds no character of class
SkipClass(s, i, class) == i + LeadingIn(SubSeq(s, i, Len(s)), class)

\* FindStringSubmatch(s)[1], or "" when the pattern does not match
languageSubmatch(s) ==
    LET word == <<"l","a","n","g","u","a","g","e">>
        i1 == SkipClass(s, 1, RegexpSpace)
        i2 == SkipClass(s, i1 + 1, RegexpSpace)
        i3 == SkipClass(s, i2 + Len(word), RegexpSpace)
        i4 == SkipClass(s, i3 + 1, RegexpSpace)
        i5 == SkipClass(s, i4, CodeChars)
        i6 == SkipClass(s, i5, RegexpSpace)
    IN  IF /\ i1 <= Len(s) /\ s[i1] = "#"
           /\ HasPrefix(SubSeq(s, i2, Len(s)), word)
           /\ i3 <= Len(s) /\ s[i3] = ":"
           /\ i5 > i4
           /\ i6 = Len(s) + 1
        THEN SubSeq(s, i4, i5 - 1)
        ELSE <<>>

\* mutant: the new code is stored but the dialect is not replaced
languageUpdateKeepsDialect(code) ==
    IF GetDialect(code) = NoDialect
    THEN <<lang, dialect>>
    ELSE <<code, dialect>>

\* mutant: the code is stored before the provider is asked
languageUpdateBeforeLookup(code) ==
    IF GetDialect(code) = NoDialect
    THEN <<code, dialect>>
    ELSE <<code, GetDialect(code)>>

\* the values of m.lang and m.dialect after the lookup of a matched code
languageUpdate(code) ==
    IF GetDialect(code) = NoDialect
    THEN <<lang, dialect>>
    ELSE <<code, GetDialect(code)>>

languageError(code, location) ==
    IF GetDialect(code) = NoDialect
    THEN parseError(<<"L","a","n","g","u","a","g","e"," ","n","o","t"," ",
                      "s","u","p","p","o","r","t","e","d",":"," ">> \o code,
                    location)
    ELSE NoErr

MatchLanguage ==
    /\ ~aborted
    /\ LET code == languageSubmatch(line.trimmedLineText)
           tok == [newTokenAtLocation(line.lineNumber, Indent(line)) EXCEPT
                      !.Type = "Language", !.Text = code]
       IN  IF code # <<>>
           THEN /\ Return("MatchLanguage",
                          Result(TRUE, tok, languageError(code, tok.Location)))
                /\ lang' = languageUpdate(code)[1]
                /\ dialect' = languageUpdate(code)[2]
                /\ resolvedCode' = IF GetDialect(code) # NoDialect
                                   THEN code ELSE resolvedCode
           ELSE /\ Return("MatchLanguage", Decline)
                /\ UNCHANGED <<lang, dialect, resolvedCode>>
    /\ UNCHANGED <<activeDocStringSeparator, indentToRemove, line>>

\* mutant: the loop strips every leading space, whatever the limit
RECURSIVE otherLoopNoLimit(_, _, _, _)
otherLoopNoLimit(txt, k, ind, limit) ==
    IF k >= Len(txt) THEN ind
    ELSE IF txt[k + 1] # " " THEN ind
    ELSE otherLoopNoLimit(txt, k + 1, ind + 1, limit)

\* the loop of MatchOther: k is the 0-based position, limit is indentToRemove
RECURSIVE otherLoop(_, _, _, _)
otherLoop(txt, k, ind, limit) ==
    IF k >= Len(txt) THEN ind
    ELSE IF txt[k + 1] # " " THEN ind
    ELSE IF ind >= limit THEN ind
    ELSE otherLoop(txt, k + 1, ind + 1, limit)

otherResult(l) ==
    LET txt == l.lineText
        ind == otherLoop(txt, 0, 0, indentToRemove)
    IN  IF SliceInRange(txt, ind, Len(txt))
        THEN Result(TRUE,
                    [newTokenAtLocation(l.lineNumber, 0) EXCEPT
                        !.Type = "Other", !.Text = Slice(txt, ind, Len(txt))],
                    NoErr)
        ELSE Panic

\* mutant: the stripped characters are taken off the matcher's indent
MatchOtherConsumesIndent ==
    /\ ~aborted
    /\ Return("MatchOther", otherResult(line))
    /\ indentToRemove' =
           indentToRemove - otherLoop(line.lineText, 0, 0, indentToRemove)
    /\ UNCHANGED <<lang, dialect, activeDocStringSeparator, line, resolvedCode>>

MatchOther ==
    /\ ~aborted
    /\ Return("MatchOther", otherResult(line))
    /\ UNCHANGED <<matcherVars, line, resolvedCode>>

Next ==
    \/ Scan
    \/ MatchEOF
    \/ MatchEmpty
    \/ MatchComment
    \/ MatchTagLine
    \/ MatchFeatureLine
    \/ MatchBackgroundLine
    \/ MatchScenarioLine
    \/ MatchScenarioOutlineLine
    \/ MatchExamplesLine
    \/ MatchStepLine
    \/ MatchDocStringSeparator
    \/ MatchTableRow
    \/ MatchLanguage
    \/ MatchOther

Spec == Init /\ [][Next]_vars

\* the table-row rule applied to every generated row
InitRow == NewMatcher /\ line \in RowLines
NextRow == MatchTableRow
SpecRow == InitRow /\ [][NextRow]_vars

(***************************************************************************)
(* Properties.                                                             *)
(***************************************************************************)
TitleRules ==
    {"MatchFeatureLine", "MatchBackgroundLine", "MatchScenarioLine",
     "MatchScenarioOutlineLine", "MatchExamplesLine"}

KeywordRules == TitleRules \cup {"MatchStepLine"}

\* the keyword list of dialect d that rule r matches against
KeywordsOf(d, r) ==
    CASE r = "MatchFeatureLine"         -> d.FeatureKeywords
      [] r = "MatchBackgroundLine"      -> d.BackgroundKeywords
      [] r = "MatchScenarioLine"        -> d.ScenarioKeywords
      [] r = "MatchScenarioOutlineLine" -> d.ScenarioOutlineKeywords
      [] r = "MatchExamplesLine"        -> d.ExamplesKeywords
      [] r = "MatchStepLine"            -> d.StepKeywords

\* what a keyword must be followed by for rule r
SeparatorOf(r) == IF r \in TitleRules THEN <<":">> ELSE <<>>

Range(f) == {f[i] : i \in DOMAIN f}

Fr == <<"f","r">>

\* C1: the language and dialect in force are those of the most recent pragma
\* whose code resolved ("en" before any), and a keyword rule matches exactly
\* when the line starts with a keyword of that dialect's list for the rule,
\* returning that keyword.
C1_DialectOfLastResolvedPragma ==
    /\ lang = resolvedCode
    /\ dialect = GetDialect(resolvedCode)
    /\ rule \in KeywordRules =>
         LET kws == KeywordsOf(GetDialect(resolvedCode), rule)
         IN  /\ ok <=> \E k \in Range(kws) :
                          HasPrefix(line.trimmedLineText, k \o SeparatorOf(rule))
             /\ ok => /\ token.Keyword \in Range(kws)
                      /\ HasPrefix(line.trimmedLineText,
                                   token.Keyword \o SeparatorOf(rule))

\* a French step keyword matched after a pragma switched to "fr"
C1_Witness ==
    /\ resolvedCode = Fr
    /\ rule = "MatchStepLine"
    /\ ok
    /\ token.Keyword = <<"S","o","i","t"," ">>

\* the code of a line of pragma shape, "" for any other line
PragmaCode(l) == languageSubmatch(l.trimmedLineText)

IsSuffix(suffix, s) ==
    /\ Len(suffix) <= Len(s)
    /\ SubSeq(s, Len(s) - Len(suffix) + 1, Len(s)) = suffix

\* C2: MatchLanguage on a pragma whose code the provider does not know
\* reports a match with a Language token whose text is the code, returns an
\* error naming the code at the token's location, and changes neither the
\* language code nor the dialect.
C2_UnknownCodeKeepsDialect ==
    [][(rule' = "MatchLanguage" /\ PragmaCode(line) # <<>>
            /\ GetDialect(PragmaCode(line)) = NoDialect)
       => /\ ok'
          /\ token'.Type = "Language"
          /\ token'.Text = PragmaCode(line)
          /\ ~err'.isNil
          /\ IsSuffix(PragmaCode(line), err'.msg)
          /\ err'.loc = token'.Location
          /\ err'.loc = [line |-> line.lineNumber, column |-> Indent(line) + 1]
          /\ lang' = lang
          /\ dialect' = dialect]_vars

\* an unknown code was refused while French was in force
C2_Witness ==
    /\ rule = "MatchLanguage"
    /\ ~err.isNil
    /\ lang = Fr
    /\ dialect = DialectFr

Separators == {DOCSTRING_SEPARATOR, DOCSTRING_ALTERNATIVE_SEPARATOR}

\* C3: with no delimiter active, MatchDocStringSeparator on a line starting
\* with a delimiter literal matches, activates that literal and records the
\* indent of the line; while a delimiter is active, every call leaves the
\* delimiter and the indent alone and MatchDocStringSeparator declines, except
\* MatchDocStringSeparator on a line starting with the active delimiter,
\* which matches with a token without text and resets both.
C3_DocStringProtocol ==
    [][/\ (activeDocStringSeparator = <<>> /\ rule' = "MatchDocStringSeparator")
            => \A d \in Separators :
                 HasPrefix(line.trimmedLineText, d)
                    => /\ ok'
                       /\ token'.Type = "DocStringSeparator"
                       /\ activeDocStringSeparator' = d
                       /\ indentToRemove' = Indent(line)
       /\ (activeDocStringSeparator # <<>>
             /\ ~(rule' = "MatchDocStringSeparator"
                    /\ HasPrefix(line.trimmedLineText, activeDocStringSeparator)))
            => /\ activeDocStringSeparator' = activeDocStringSeparator
               /\ indentToRemove' = indentToRemove
               /\ rule' = "MatchDocStringSeparator" => ~ok'
       /\ (activeDocStringSeparator # <<>>
             /\ rule' = "MatchDocStringSeparator"
             /\ HasPrefix(line.trimmedLineText, activeDocStringSeparator))
            => /\ ok'
               /\ token'.Type = "DocStringSeparator"
               /\ token'.Text = <<>>
               /\ activeDocStringSeparator' = <<>>
               /\ indentToRemove' = 0]_vars

\* a doc-string opened at an indent has just been closed
C3_Witness ==
    /\ rule = "MatchDocStringSeparator"
    /\ ok
    /\ activeDocStringSeparator = <<>>
    /\ indentToRemove = 0
    /\ token.Text = <<>>
    /\ HasPrefix(line.trimmedLineText, DOCSTRING_ALTERNATIVE_SEPARATOR)

\* C4 as stated: the language field of the returned token is the language
\* code of the matcher when the operation returns.
C4_TokenLanguageAtReturn == ok => token.GherkinDialect = lang

\* C4: the language field of every returned token is the language code the
\* matcher had when the operation was called; the Language token of a call
\* that resolves another code carries the code that was active before.
C4_TokenLanguageAtCall ==
    [][ok' => /\ token'.GherkinDialect = lang
              /\ ~(rule' = "MatchLanguage" /\ lang' # lang)
                   => token'.GherkinDialect = lang']_vars

\* a resolving MatchLanguage returned a token stamped with the old code
C4_Witness ==
    /\ rule = "MatchLanguage"
    /\ ok
    /\ err.isNil
    /\ token.GherkinDialect # lang

\* C5: no rule aborts, and no rule but MatchLanguage returns an error.
C5_RulesAreTotal ==
    /\ ~aborted
    /\ rule # "MatchLanguage" => err.isNil

Last(s) == s[Len(s)]

\* trimmed text starts and ends with the cell separator
WellFormedRow(l) ==
    /\ HasPrefix(l.trimmedLineText, TABLE_CELL_SEPARATOR)
    /\ Last(l.trimmedLineText) = "|"

\* C6: MatchTableRow declines a line whose trimmed text starts with "|" but
\* does not end with "|": no match, no token, no error.
C6_MalformedRowDeclined ==
    (rule = "MatchTableRow"
        /\ HasPrefix(line.trimmedLineText, TABLE_CELL_SEPARATOR)
        /\ ~WellFormedRow(line))
    => /\ ~aborted
       /\ ~ok
       /\ token = NoToken
       /\ err.isNil

TagExample == <<"@","f","o","o"," ","@","b","a","r"," "," ","@","b","a","z">>

Span(c, t) == [column |-> c, text |-> t]

RECURSIVE PipesFrom(_, _)
PipesFrom(s, i) ==
    IF i > Len(s) THEN <<>>
    ELSE IF s[i] = "|" THEN <<i>> \o PipesFrom(s, i + 1)
    ELSE PipesFrom(s, i + 1)

\* the raw text between the i-th separator and the next
RawCell(s, pipes, i) == SubSeq(s, pipes[i] + 1, pipes[i + 1] - 1)

\* C8: on a well-formed row MatchTableRow returns one span per cell, in
\* order, with the cell trimmed of spaces as text and, for a cell that is not
\* blank, the column of its first character that is not a space.
C8_TableCells ==
    (rule = "MatchTableRow" /\ WellFormedRow(line))
    => LET s == line.lineText
           pipes == PipesFrom(s, 1)
       IN  /\ ~aborted
           /\ ok
           /\ Len(token.Items) = Len(pipes) - 1
           /\ \A i \in 1..(Len(pipes) - 1) :
                 LET raw == RawCell(s, pipes, i)
                 IN  /\ token.Items[i].text = Trim(raw, {" "})
                     /\ Trim(raw, {" "}) # <<>> =>
                          token.Items[i].column =
                              pipes[i] + LeadingIn(raw, {" "}) + 1

\* C9: only a MatchLanguage call that matches a resolvable code changes the
\* language or the dialect, only a MatchDocStringSeparator call that matches
\* changes the delimiter or the indent to strip, and a rule other than these
\* two called again on the same line returns the same results.
C9_Frame ==
    [][/\ (lang' # lang \/ dialect' # dialect)
            => /\ rule' = "MatchLanguage"
               /\ ok'
               /\ err'.isNil
               /\ GetDialect(PragmaCode(line)) # NoDialect
               /\ lang' = PragmaCode(line)
       /\ (activeDocStringSeparator' # activeDocStringSeparator
             \/ indentToRemove' # indentToRemove)
            => /\ rule' = "MatchDocStringSeparator"
               /\ ok'
       /\ (rule' = rule /\ line' = line
             /\ rule \notin {"MatchLanguage", "MatchDocStringSeparator"})
            => /\ ok' = ok
               /\ token' = token
               /\ err' = err]_vars

\* a rule that changes nothing was called inside an open doc-string, in French
C9_Witness ==
    /\ rule = "MatchOther"
    /\ ok
    /\ activeDocStringSeparator # <<>>
    /\ indentToRemove > 0
    /\ lang = Fr

\* number of leading space characters of the raw line
LeadingSpaces(l) == LeadingIn(l.lineText, {" "})

\* C10: MatchOther always matches, at column 1, with the raw line less its
\* first min(s, indentToRemove) characters, s being the number of leading
\* spaces; with no doc-string open the text is the raw line.
C10_OtherStripsIndent ==
    rule = "MatchOther"
    => LET n == Min(LeadingSpaces(line), indentToRemove)
       IN  /\ ok
           /\ ~aborted
           /\ err.isNil
           /\ token.Type = "Other"
           /\ token.Location = [line |-> line.lineNumber, column |-> 1]
           /\ token.Text = SubSeq(line.lineText, n + 1, Len(line.lineText))
           /\ Len(line.lineText) - Len(token.Text) <= indentToRemove
           /\ activeDocStringSeparator = <<>>
                => (indentToRemove = 0 /\ token.Text = line.lineText)

\* a body line indented deeper than the opening delimiter lost only that indent
C10_Witness ==
    /\ rule = "MatchOther"
    /\ indentToRemove > 0
    /\ LeadingSpaces(line) > indentToRemove
    /\ Len(token.Text) = Len(line.lineText) - indentToRemove

====
